---------------------------- MODULE Spec2Model ----------------------------
(***************************************************************************)
(* Model of the audio synthesis core of stardust (src/main.rs): the shared *)
(* State behind Arc<Mutex<State>>, the control context (App::update) and   *)
(* the render context (the cpal output stream data callback).              *)
(*                                                                         *)
(* Sample values are fixed-point integers in units of 1/Unit.  Frequencies *)
(* are in hundredths of a hertz, so that the phase                         *)
(*   (sample_clock * freq / sample_rate) % 1.0                             *)
(* is the exact rational PhaseNum / PhaseDen.                              *)
(***************************************************************************)
EXTENDS Integers, Sequences, FiniteSets, TLC

\* ------------------------------------------------------------------ bounds
MaxRate == 3        \* sample rates 1..MaxRate reported by the device
MaxBuf == 2         \* output buffers of 0..MaxBuf slots
MaxSamples == 4     \* the backend stops asking after MaxSamples samples
Unit == 100         \* fixed-point resolution of a sample: 1.0 = Unit
GenMaxRate == 4     \* generate_sample on its own: sample rates 1..GenMaxRate
GenMaxClock == 6    \* generate_sample on its own: clock positions 0..GenMaxClock

\* ------------------------------------------------------- program constants
VolumeTenths == 2   \* the 0.2 of `acc / notes.len() as f32 * 0.2`

\* ------------------------------------------------------------------ inputs
CharKey(c) == [kind |-> "Character", ch |-> c]
NamedKey(n) == [kind |-> "Named", ch |-> n]
NoKey == [kind |-> "None", ch |-> ""]

\* q and w are playable, a is an unmapped character, Enter is not a character
Keys == {CharKey("q"), CharKey("w"), CharKey("a"), NamedKey("Enter")}

Msg(t, k) == [type |-> t, key |-> k]
ShapeMessages == {"SineSelected", "SawSelected", "TriangleSelected", "SquareSelected"}
Messages ==
    {Msg("KeyPressed", k) : k \in Keys} \cup {Msg("KeyReleased", k) : k \in Keys}
        \cup {Msg(t, NoKey) : t \in ShapeMessages} \cup {Msg("None", NoKey)}
NoMessage == Msg("", NoKey)

\* ------------------------------------------------------------- WaveShape
WaveShape == {"Sine", "Triangle", "Saw", "Square"}

\* #[default] put on the last variant
DefaultIsSquare == "Square"

\* #[default] Sine
DefaultWaveShape == "Sine"

\* ------------------------------------------------------------------ Note
\* Note::freq, in hundredths of a hertz
NoteFreq ==
    [C3 |-> 13081, CSharp3 |-> 13859, D3 |-> 14683, DSharp3 |-> 15556,
     E3 |-> 16481, F3 |-> 17461, FSharp3 |-> 18500, G3 |-> 19600,
     GSharp3 |-> 20765, A3 |-> 22000, ASharp3 |-> 23308, B3 |-> 24694,
     C4 |-> 26163, CSharp4 |-> 27718, D4 |-> 29366, DSharp4 |-> 31113,
     E4 |-> 32963, F4 |-> 34923, FSharp4 |-> 36999, G4 |-> 39200,
     GSharp4 |-> 41530, A4 |-> 44000, ASharp4 |-> 46616, B4 |-> 49388,
     C5 |-> 52325, CSharp5 |-> 55437, D5 |-> 58733, DSharp5 |-> 62225,
     E5 |-> 65925, F5 |-> 69846]

Note == DOMAIN NoteFreq

\* the character table of impl TryFrom<Key> for Note
KeyTable ==
    {<<"z", "C3">>, <<"s", "CSharp3">>, <<"x", "D3">>, <<"d", "DSharp3">>,
     <<"c", "E3">>, <<"v", "F3">>, <<"g", "FSharp3">>, <<"b", "G3">>,
     <<"h", "GSharp3">>, <<"n", "A3">>, <<"j", "ASharp3">>, <<"m", "B3">>,
     <<"q", "C4">>, <<"2", "CSharp4">>, <<"w", "D4">>, <<"3", "DSharp4">>,
     <<"e", "E4">>, <<"r", "F4">>, <<"5", "FSharp4">>, <<"t", "G4">>,
     <<"6", "GSharp4">>, <<"y", "A4">>, <<"7", "ASharp4">>, <<"u", "B4">>,
     <<"i", "C5">>, <<"9", "CSharp5">>, <<"o", "D5">>, <<"0", "DSharp5">>,
     <<"p", "E5">>, <<"[", "F5">>}

MappedChars == {e[1] : e \in KeyTable}

Err == [ok |-> FALSE, note |-> ""]
Ok(n) == [ok |-> TRUE, note |-> n]

\* a slip of the table: the fall-through arm yields a note instead of Err(())
TryFromFallThrough(key) ==
    IF key.kind = "Character" /\ key.ch \in MappedChars
    THEN Ok((CHOOSE e \in KeyTable : e[1] = key.ch)[2])
    ELSE Ok("C3")

\* Note::try_from(key)
TryFrom(key) ==
    IF key.kind = "Character"
    THEN IF key.ch \in MappedChars
         THEN Ok((CHOOSE e \in KeyTable : e[1] = key.ch)[2])
         ELSE Err
    ELSE Err

\* ------------------------------------------------------- HashSet<Note>
\* a press that toggles the note instead of inserting it
HashSetToggle(set, n) == IF n \in set THEN set \ {n} ELSE set \cup {n}

\* HashSet::insert
HashSetInsert(set, n) == set \cup {n}

\* a release that toggles the note instead of removing it
HashSetRemoveToggle(set, n) == IF n \in set THEN set \ {n} ELSE set \cup {n}

\* a release that leaves the note in the set
HashSetRemoveNothing(set, n) == set

\* HashSet::remove
HashSetRemove(set, n) == set \ {n}

\* ------------------------------------------------------ generate_sample
Abs(x) == IF x < 0 THEN 0 - x ELSE x

\* division rounding toward zero, the fixed-point stand-in of f32 rounding
Quot(a, b) == IF a >= 0 THEN a \div b ELSE 0 - ((0 - a) \div b)

\* phase = (sample_clock * freq / sample_rate) % 1.0 = PhaseNum / PhaseDen
PhaseDen(rate) == 100 * rate
PhaseNum(clock, freq, rate) == (clock * freq) % PhaseDen(rate)

\* f32::sin of 2*pi*pn/den by Bhaskara's rational approximation
\*   sin(2 pi p) ~ 32 p (1 - 2p) / (5 - 8 p (1 - 2p))   for p in [0, 1/2]
\*   sin(2 pi p) = - sin(2 pi (p - 1/2))                 for p in [1/2, 1)
SinHalf(pn, den) ==
    Quot(Unit * 32 * pn * (den - 2 * pn), 5 * den * den - 8 * pn * (den - 2 * pn))

SinTurn(pn, den) ==
    IF 2 * pn <= den THEN SinHalf(pn, den)
    ELSE 0 - SinHalf(pn - Quot(den, 2), den)

\* a sawtooth without the - 1.
generate_sample_saw_offset(shape, clock, freq, rate) ==
    LET den == PhaseDen(rate)
        pn == PhaseNum(clock, freq, rate)
    IN CASE shape = "Sine" -> SinTurn(pn, den)
         [] shape = "Saw" -> Quot(Unit * 2 * pn, den)
         [] shape = "Square" -> IF 2 * pn < den THEN Unit ELSE 0 - Unit
         [] shape = "Triangle" -> Quot(Unit * (2 * Abs(2 * pn - den) - den), den)

\* WaveShape::generate_sample(&self, sample_clock, freq, sample_rate)
generate_sample(shape, clock, freq, rate) ==
    LET den == PhaseDen(rate)
        pn == PhaseNum(clock, freq, rate)
    IN CASE shape = "Sine" -> SinTurn(pn, den)
         [] shape = "Saw" -> Quot(Unit * (2 * pn - den), den)
         [] shape = "Square" -> IF 2 * pn < den THEN Unit ELSE 0 - Unit
         [] shape = "Triangle" -> Quot(Unit * (2 * Abs(2 * pn - den) - den), den)

\* ---------------------------------------------------- the per-sample mix
\* an accumulation written with = instead of +=: only one voice is left in acc
AccumulateOverwrite(ns, shape, clock, rate) ==
    IF ns = {} THEN 0
    ELSE generate_sample(shape, clock, NoteFreq[CHOOSE x \in ns : TRUE], rate)

RECURSIVE Accumulate(_, _, _, _)
\* for note in &notes { acc += state.wave_shape.generate_sample(...) }
Accumulate(ns, shape, clock, rate) ==
    IF ns = {} THEN 0
    ELSE LET n == CHOOSE x \in ns : TRUE
         IN generate_sample(shape, clock, NoteFreq[n], rate)
                + Accumulate(ns \ {n}, shape, clock, rate)

\* what 0.0 / 0 as f32 * 0.2 yields: not a number, here a value out of range
NaN == Unit * Unit

\* the mix without the notes.is_empty() test
MixSampleUnguarded(ns, shape, clock, rate) ==
    IF ns = {} THEN NaN
    ELSE Quot(Quot(Accumulate(ns, shape, clock, rate), Cardinality(ns)) * VolumeTenths, 10)

\* the mix without the division by notes.len()
MixSampleNoAverage(ns, shape, clock, rate) ==
    IF ns = {} THEN 0
    ELSE Quot(Accumulate(ns, shape, clock, rate) * VolumeTenths, 10)

\* *sample = if notes.is_empty() { 0.0 } else { acc / notes.len() as f32 * 0.2 }
MixSample(ns, shape, clock, rate) ==
    IF ns = {} THEN 0
    ELSE Quot(Quot(Accumulate(ns, shape, clock, rate), Cardinality(ns)) * VolumeTenths, 10)

\* ------------------------------------------------------- the sample clock
\* f32 holds every integer up to 2^24 exactly; above it x + 1.0 rounds to x
F32Exact == 16777216

\* an advance by two
AdvanceTwice(clock) == IF clock < F32Exact THEN clock + 2 ELSE clock

\* sample_clock += 1.0
Advance(clock) == IF clock < F32Exact THEN clock + 1 ELSE clock

\* the wrap test written with > instead of >=
WrapLate(clock, rate) == IF clock > rate THEN 0 ELSE clock

\* if sample_clock >= sample_rate { sample_clock = 0.0 }
Wrap(clock, rate) == IF clock >= rate THEN 0 ELSE clock

\* ------------------------------------------------------------- Mutex<State>
\* a lock() that never waits
MutexNeverWaits(l) == TRUE

\* lock() returns only when the mutex is free
MutexFree(l) == l = FALSE

\* a guard whose drop leaves the mutex locked
UnlockForgotten(l) == l

\* the drop of a MutexGuard unlocks the mutex
Unlock(l) == FALSE

\* an insert that fails on a note that is already active
UpdatePanicsOnDuplicate(m, set) ==
    m.type = "KeyPressed" /\ TryFrom(m.key).ok /\ TryFrom(m.key).note \in set

\* does the match of App::update panic? insert, remove and the assignments cannot
UpdatePanics(m, set) == FALSE

\* a mix that divides by an integer notes.len(): it panics on an empty list
MixPanicsOnEmpty(ns) == ns = {}

\* does the mix panic? f32 arithmetic and the slice iterator cannot
MixPanics(ns) == FALSE

\* --------------------------------------- state.active_notes.iter().collect()
\* an iteration that skips the first note
CollectSkipsOne(set) == IF set = {} THEN set ELSE set \ {CHOOSE n \in set : TRUE}

\* the Vec holds a reference to every note of the set
Collect(set) == set

\* ---------------------------------------------------- data.iter_mut()
\* an iterator that stops one slot early
IterStopsEarly(i, len) == i < len

\* the iterator yields slot i while i <= len (slots are numbered from 1)
IterHasNext(i, len) == i <= len

\* ---------------------------------------------------------------- state
VARIABLES
    active_notes,   \* State.active_notes: HashSet<Note>
    wave_shape,     \* State.wave_shape
    locked,         \* the Mutex around State: TRUE while some guard is alive
    poisoned,       \* the Mutex's poison flag: a guard was dropped by a panic
    pc_u,           \* App::update: "idle", "lock", "match", "drop", "panicked"
    message,        \* the Message App::update is handling
    guard_u,        \* App::update owns a MutexGuard
    presses,        \* per playable key: presses handled since its last release (0, 1, 2 = more than one)
    before,         \* State as the match of the message being handled found it
    selected,       \* the last shape selection message handled, "" if none
    pc_r,           \* data callback: "idle", "lock", "collect", "mix", "advance", "wrap", "drop", "done", "panicked"
    guard_r,        \* the data callback owns a MutexGuard
    notes,          \* the callback's notes: Vec<&Note>
    seen,           \* State as it was when the callback got the lock, while it holds the lock
    data,           \* the output buffer data: &mut [f32]
    writes,         \* per slot of data: how often this invocation wrote it
    idx,            \* the slot data.iter_mut() is at
    sample_clock,   \* the closure's captured sample_clock
    sample_rate,    \* config.sample_rate().0
    total,          \* samples written since the stream started
    gen             \* one call of generate_sample: its arguments and its result

stateVars == <<active_notes, wave_shape>>
mutexVars == <<locked, poisoned>>
ctrlVars == <<pc_u, message, guard_u, presses, before, selected>>
bufVars == <<data, writes, idx>>
clockVars == <<sample_clock, sample_rate, total>>
renderVars == <<pc_r, guard_r, notes, seen, bufVars, clockVars>>
vars == <<stateVars, mutexVars, ctrlVars, renderVars, gen>>

PlayableKeys == {k \in Keys : k.kind = "Character" /\ k.ch \in MappedChars}

\* the buffer's contents before the callback writes it; the callback never reads them
Stale == 2 * Unit

StateOf(ns, shape) == [active_notes |-> ns, wave_shape |-> shape]
NoState == StateOf({}, "")

\* no call of generate_sample on its own
NoCall == [shape |-> "", clock |-> 0, freq |-> 0, rate |-> 0, done |-> FALSE, out |-> 0]

\* App::default() and the start of start_audio's thread
MainInit ==
    /\ active_notes = {}
    /\ wave_shape = DefaultWaveShape
    /\ locked = FALSE
    /\ poisoned = FALSE
    /\ pc_u = "idle"
    /\ message = NoMessage
    /\ guard_u = FALSE
    /\ presses = [k \in PlayableKeys |-> 0]
    /\ before = NoState
    /\ selected = ""
    /\ pc_r = "idle"
    /\ guard_r = FALSE
    /\ notes = {}
    /\ seen = NoState
    /\ data = <<>>
    /\ writes = <<>>
    /\ idx = 1
    /\ sample_clock = 0
    /\ sample_rate \in 1..MaxRate
    /\ total = 0

Init == MainInit /\ gen = NoCall

\* ------------------------------------------------------------ App::update
\* the runtime calls App::update(message)
Update(m) ==
    /\ pc_u = "idle"
    /\ pc_u' = "lock"
    /\ message' = m
    /\ UNCHANGED <<stateVars, mutexVars, guard_u, presses, before, selected, renderVars, gen>>

\* let mut state = self.state.lock().unwrap();
UpdateLock ==
    /\ pc_u = "lock"
    /\ MutexFree(locked)
    /\ IF poisoned
       THEN \* lock() is Err(PoisonError), unwrap() panics and the guard in it is dropped
            pc_u' = "panicked" /\ UNCHANGED <<locked, guard_u>>
       ELSE locked' = TRUE /\ guard_u' = TRUE /\ pc_u' = "match"
    /\ UNCHANGED <<stateVars, poisoned, message, presses, before, selected, renderVars, gen>>

\* the key events handled so far, per playable key
Count(m) ==
    IF m.key \in PlayableKeys
    THEN CASE m.type = "KeyPressed" ->
                [presses EXCEPT ![m.key] = IF @ = 0 THEN 1 ELSE 2]
           [] m.type = "KeyReleased" -> [presses EXCEPT ![m.key] = 0]
           [] OTHER -> presses
    ELSE presses

\* the match with the arms of SawSelected and TriangleSelected exchanged
UpdateMatchArmsExchanged ==
    /\ pc_u = "match"
    /\ IF UpdatePanics(message, active_notes)
       THEN \* the unwinding drops the guard, which poisons and unlocks the mutex
            /\ poisoned' = TRUE /\ locked' = Unlock(locked) /\ guard_u' = FALSE
            /\ pc_u' = "panicked"
            /\ UNCHANGED <<stateVars, presses, before, selected>>
       ELSE /\ LET note == TryFrom(message.key)
               IN CASE message.type = "KeyPressed" ->
                         /\ active_notes' = IF note.ok
                                            THEN HashSetInsert(active_notes, note.note)
                                            ELSE active_notes
                         /\ UNCHANGED wave_shape
                    [] message.type = "KeyReleased" ->
                         /\ active_notes' = IF note.ok
                                            THEN HashSetRemove(active_notes, note.note)
                                            ELSE active_notes
                         /\ UNCHANGED wave_shape
                    [] message.type = "SineSelected" ->
                         wave_shape' = "Sine" /\ UNCHANGED active_notes
                    [] message.type = "SawSelected" ->
                         wave_shape' = "Triangle" /\ UNCHANGED active_notes
                    [] message.type = "TriangleSelected" ->
                         wave_shape' = "Saw" /\ UNCHANGED active_notes
                    [] message.type = "SquareSelected" ->
                         wave_shape' = "Square" /\ UNCHANGED active_notes
                    [] message.type = "None" -> UNCHANGED stateVars
            /\ presses' = Count(message)
            /\ before' = StateOf(active_notes, wave_shape)
            /\ selected' = IF message.type \in ShapeMessages THEN message.type ELSE selected
            /\ pc_u' = "drop"
            /\ UNCHANGED <<mutexVars, guard_u>>
    /\ UNCHANGED <<message, renderVars, gen>>

\* match message { ... }
UpdateMatch ==
    /\ pc_u = "match"
    /\ IF UpdatePanics(message, active_notes)
       THEN \* the unwinding drops the guard, which poisons and unlocks the mutex
            /\ poisoned' = TRUE /\ locked' = Unlock(locked) /\ guard_u' = FALSE
            /\ pc_u' = "panicked"
            /\ UNCHANGED <<stateVars, presses, before, selected>>
       ELSE /\ LET note == TryFrom(message.key)
               IN CASE message.type = "KeyPressed" ->
                         /\ active_notes' = IF note.ok
                                            THEN HashSetInsert(active_notes, note.note)
                                            ELSE active_notes
                         /\ UNCHANGED wave_shape
                    [] message.type = "KeyReleased" ->
                         /\ active_notes' = IF note.ok
                                            THEN HashSetRemove(active_notes, note.note)
                                            ELSE active_notes
                         /\ UNCHANGED wave_shape
                    [] message.type = "SineSelected" ->
                         wave_shape' = "Sine" /\ UNCHANGED active_notes
                    [] message.type = "SawSelected" ->
                         wave_shape' = "Saw" /\ UNCHANGED active_notes
                    [] message.type = "TriangleSelected" ->
                         wave_shape' = "Triangle" /\ UNCHANGED active_notes
                    [] message.type = "SquareSelected" ->
                         wave_shape' = "Square" /\ UNCHANGED active_notes
                    [] message.type = "None" -> UNCHANGED stateVars
            /\ presses' = Count(message)
            /\ before' = StateOf(active_notes, wave_shape)
            /\ selected' = IF message.type \in ShapeMessages THEN message.type ELSE selected
            /\ pc_u' = "drop"
            /\ UNCHANGED <<mutexVars, guard_u>>
    /\ UNCHANGED <<message, renderVars, gen>>

\* the guard `state` goes out of scope at the end of App::update
UpdateReturn ==
    /\ pc_u = "drop"
    /\ guard_u' = FALSE
    /\ locked' = Unlock(locked)
    /\ pc_u' = "idle"
    /\ message' = NoMessage
    /\ before' = NoState
    /\ UNCHANGED <<stateVars, poisoned, presses, selected, renderVars, gen>>

\* ---------------------------------------- the output stream data callback
\* the backend calls the closure with a buffer of len slots
Callback(len) ==
    /\ pc_r = "idle"
    /\ total + len <= MaxSamples
    /\ pc_r' = "lock"
    /\ data' = [i \in 1..len |-> Stale]
    /\ writes' = [i \in 1..len |-> 0]
    /\ idx' = 1
    /\ UNCHANGED <<stateVars, mutexVars, ctrlVars, guard_r, notes, seen, clockVars, gen>>

\* let state = state.lock().unwrap();
RenderLock ==
    /\ pc_r = "lock"
    /\ MutexFree(locked)
    /\ IF poisoned
       THEN \* lock() is Err(PoisonError), unwrap() panics and the guard in it is dropped
            pc_r' = "panicked" /\ UNCHANGED <<locked, guard_r, seen>>
       ELSE /\ locked' = TRUE /\ guard_r' = TRUE /\ pc_r' = "collect"
            /\ seen' = StateOf(active_notes, wave_shape)
    /\ UNCHANGED <<stateVars, poisoned, ctrlVars, notes, bufVars, clockVars, gen>>

\* a collect that takes the notes out of the set: active_notes.drain().collect()
RenderCollectDrains ==
    /\ pc_r = "collect"
    /\ notes' = Collect(active_notes)
    /\ active_notes' = {}
    /\ pc_r' = IF IterHasNext(idx, Len(data)) THEN "mix" ELSE "drop"
    /\ UNCHANGED <<wave_shape, mutexVars, ctrlVars, guard_r, seen, bufVars, clockVars, gen>>

\* let notes: Vec<_> = state.active_notes.iter().collect();
RenderCollect ==
    /\ pc_r = "collect"
    /\ notes' = Collect(active_notes)
    /\ pc_r' = IF IterHasNext(idx, Len(data)) THEN "mix" ELSE "drop"
    /\ UNCHANGED <<stateVars, mutexVars, ctrlVars, guard_r, seen, bufVars, clockVars, gen>>

\* the accumulation over notes and the store to *sample
RenderMix ==
    /\ pc_r = "mix"
    /\ IF MixPanics(notes)
       THEN \* the unwinding drops the guard, which poisons and unlocks the mutex
            /\ poisoned' = TRUE /\ locked' = Unlock(locked) /\ guard_r' = FALSE
            /\ pc_r' = "panicked"
            /\ UNCHANGED <<data, writes, total>>
       ELSE /\ data' = [data EXCEPT ![idx] =
                            MixSample(notes, wave_shape, sample_clock, sample_rate)]
            /\ writes' = [writes EXCEPT ![idx] = @ + 1]
            /\ total' = total + 1
            /\ pc_r' = "advance"
            /\ UNCHANGED <<mutexVars, guard_r>>
    /\ UNCHANGED <<stateVars, ctrlVars, notes, seen, idx, sample_clock, sample_rate, gen>>

\* sample_clock += 1.0;
RenderAdvance ==
    /\ pc_r = "advance"
    /\ sample_clock' = Advance(sample_clock)
    /\ pc_r' = "wrap"
    /\ UNCHANGED <<stateVars, mutexVars, ctrlVars, guard_r, notes, seen, bufVars, sample_rate, total, gen>>

\* if sample_clock >= sample_rate { sample_clock = 0.0; } and the loop's next slot
RenderWrap ==
    /\ pc_r = "wrap"
    /\ sample_clock' = Wrap(sample_clock, sample_rate)
    /\ idx' = idx + 1
    /\ pc_r' = IF IterHasNext(idx + 1, Len(data)) THEN "mix" ELSE "drop"
    /\ UNCHANGED <<stateVars, mutexVars, ctrlVars, guard_r, notes, seen, data, writes, sample_rate, total, gen>>

\* the guard `state` goes out of scope at the end of the closure
RenderDrop ==
    /\ pc_r = "drop"
    /\ guard_r' = FALSE
    /\ locked' = Unlock(locked)
    /\ seen' = NoState
    /\ pc_r' = "done"
    /\ UNCHANGED <<stateVars, poisoned, ctrlVars, notes, bufVars, clockVars, gen>>

\* the closure returns and the backend takes the buffer; notes is kept up to
\* here so that a finished buffer can be related to the voices it was mixed from
RenderReturn ==
    /\ pc_r = "done"
    /\ pc_r' = "idle"
    /\ notes' = {}
    /\ data' = <<>>
    /\ writes' = <<>>
    /\ idx' = 1
    /\ UNCHANGED <<stateVars, mutexVars, ctrlVars, guard_r, seen, clockVars, gen>>

Next ==
    \/ \E m \in Messages : Update(m)
    \/ UpdateLock
    \/ UpdateMatch
    \/ UpdateReturn
    \/ \E len \in 0..MaxBuf : Callback(len)
    \/ RenderLock
    \/ RenderCollect
    \/ RenderMix
    \/ RenderAdvance
    \/ RenderWrap
    \/ RenderDrop
    \/ RenderReturn

Spec == Init /\ [][Next]_vars

\* ------------------------------------------- generate_sample on its own
\* the frequencies of Note::freq and some that are not in the table
GenFreqs == {NoteFreq[n] : n \in Note} \cup {1, 50, 12345}

GenInit ==
    /\ MainInit
    /\ gen \in [shape : WaveShape, clock : 0..GenMaxClock, freq : GenFreqs,
                rate : 1..GenMaxRate, done : {FALSE}, out : {0}]

\* one call self.generate_sample(sample_clock, freq, sample_rate)
GenCall ==
    /\ ~gen.done
    /\ gen' = [gen EXCEPT !.done = TRUE,
                          !.out = generate_sample(gen.shape, gen.clock, gen.freq, gen.rate)]
    /\ UNCHANGED <<stateVars, mutexVars, ctrlVars, renderVars>>

GenNext == GenCall

GenSpec == GenInit /\ [][GenNext]_vars

\* the scheduler runs both threads; a thread blocked in lock() gets the mutex
\* when it is free often enough
Fairness ==
    /\ WF_vars(UpdateMatch) /\ WF_vars(UpdateReturn) /\ SF_vars(UpdateLock)
    /\ SF_vars(RenderLock) /\ WF_vars(RenderCollect) /\ WF_vars(RenderMix)
    /\ WF_vars(RenderAdvance) /\ WF_vars(RenderWrap) /\ WF_vars(RenderDrop)
    /\ WF_vars(RenderReturn)

\* the messages of the runs that are checked for liveness: one key pressed and
\* released, one shape selection and an event that is not for the synthesizer
LiveMessages ==
    {Msg("KeyPressed", CharKey("q")), Msg("KeyReleased", CharKey("q")),
     Msg("SquareSelected", NoKey), Msg("None", NoKey)}

LiveNext ==
    \/ \E m \in LiveMessages : Update(m)
    \/ UpdateLock
    \/ UpdateMatch
    \/ UpdateReturn
    \/ \E len \in 0..MaxBuf : Callback(len)
    \/ RenderLock
    \/ RenderCollect
    \/ RenderMix
    \/ RenderAdvance
    \/ RenderWrap
    \/ RenderDrop
    \/ RenderReturn

LiveSpec == Init /\ [][LiveNext]_vars /\ Fairness

\* ------------------------------------------------------------ properties
InLoop == pc_r \in {"mix", "advance", "wrap"}
Slots == 1..Len(data)
Written(i) == writes[i] >= 1
NoteOf(k) == (CHOOSE e \in KeyTable : e[1] = k.ch)[2]

\* C1: the render callback has released the Synth State lock before the
\* per-sample loop: it never holds the lock while it computes or writes a sample
C1_LockReleasedBeforeLoop == InLoop => ~guard_r

\* C2: the control context and the render context never hold the lock together,
\* and each reads or writes active_notes and wave_shape only while it holds it
C2_MutualExclusion ==
    /\ ~(guard_u /\ guard_r)
    /\ pc_u = "match" => guard_u /\ locked
    /\ pc_r \in {"collect", "mix"} => guard_r /\ locked

C2_Witness == pc_r = "mix" /\ guard_r /\ pc_u = "lock" /\ idx = 2

\* C3: at every sample boundary (everywhere but between the advance and the
\* wrap test) 0 <= sample_clock < sample_rate
C3_ClockInRange == pc_r # "wrap" => 0 <= sample_clock /\ sample_clock < sample_rate

C3_Witness ==
    pc_r = "mix" /\ sample_rate > 1 /\ total = sample_rate /\ sample_clock = 0

\* C4: a KeyPressed(k) handled after an earlier KeyPressed(k) with no
\* KeyReleased(k) in between leaves the active voice set as it found it
C4_PressIdempotent ==
    (pc_u = "drop" /\ message.type = "KeyPressed" /\ message.key \in PlayableKeys
        /\ presses[message.key] = 2)
    => active_notes = before.active_notes

C4_Witness ==
    /\ pc_u = "drop" /\ message.type = "KeyPressed" /\ message.key \in PlayableKeys
    /\ presses[message.key] = 2
    /\ NoteOf(message.key) \in active_notes
    /\ Cardinality(active_notes) = 2

\* C5: a KeyReleased(k) for a playable key whose note is not active completes
\* and leaves the active voice set and the shape unchanged
C5_UnmatchedRelease ==
    (pc_u = "drop" /\ message.type = "KeyReleased" /\ message.key \in PlayableKeys
        /\ NoteOf(message.key) \notin before.active_notes)
    => StateOf(active_notes, wave_shape) = before

C5_Witness ==
    /\ pc_u = "drop" /\ message.type = "KeyReleased" /\ message.key \in PlayableKeys
    /\ NoteOf(message.key) \notin before.active_notes
    /\ before.active_notes # {}

\* C6: a key event whose key is not a mapped character, and Message::None,
\* complete and leave the active voice set and the shape unchanged
Unrecognized(m) ==
    \/ m.type \in {"KeyPressed", "KeyReleased"} /\ m.key \notin PlayableKeys
    \/ m.type = "None"

C6_UnrecognizedIgnored ==
    (pc_u = "drop" /\ Unrecognized(message)) => StateOf(active_notes, wave_shape) = before

C6_Witness ==
    /\ pc_u = "drop" /\ message = Msg("KeyPressed", CharKey("a"))
    /\ active_notes = {"C4"} /\ wave_shape = "Saw"

\* C7: a sample mixed from an empty voice list is exactly 0, whatever the
\* shape and the sample clock
C7_Silence == \A i \in Slots : (Written(i) /\ notes = {}) => data[i] = 0

C7_Witness ==
    /\ pc_r = "done" /\ notes = {} /\ Len(data) >= 2 /\ wave_shape = "Square"
    /\ \A i \in Slots : Written(i)

\* C8: a sample mixed from a nonempty voice list has absolute value at most
\* the gain 0.2
C8_GainBound ==
    \A i \in Slots : (Written(i) /\ notes # {}) => 10 * Abs(data[i]) <= VolumeTenths * Unit

C8_Witness ==
    /\ pc_r = "done" /\ Cardinality(notes) = 2 /\ wave_shape = "Square"
    /\ \E i \in Slots : Written(i) /\ 10 * Abs(data[i]) > VolumeTenths * (Unit - 10)

\* C9: every invocation of the callback comes to its end, no slot is ever
\* written twice, and at the end every slot has been written once
C9_BufferComplete ==
    /\ [](\A i \in Slots : writes[i] <= 1)
    /\ [](pc_r = "done" => \A i \in Slots : writes[i] = 1)
    /\ (pc_r = "lock") ~> (pc_r = "done")

C9_Witness ==
    /\ pc_r = "done" /\ Len(data) >= 2 /\ \A i \in Slots : writes[i] = 1
    /\ notes # {} /\ pc_u = "lock"

\* C10: each sample advances the clock by one, the clock returns to 0 when the
\* advanced value reaches sample_rate and is carried over between invocations:
\* after total samples it is total mod sample_rate
C10_ClockIsTotalModRate ==
    /\ pc_r \notin {"advance", "wrap"} => sample_clock = total % sample_rate
    /\ pc_r = "advance" => sample_clock = (total - 1) % sample_rate
    /\ pc_r = "wrap" => sample_clock = ((total - 1) % sample_rate) + 1

C10_Witness ==
    /\ pc_r = "idle" /\ total > MaxBuf /\ total > sample_rate /\ sample_clock # 0

\* C11: under fair scheduling each context that got the lock gives it up
\* again, and each context that waits for the lock gets it
C11_LockNotHeldForever ==
    /\ guard_u ~> ~guard_u
    /\ guard_r ~> ~guard_r
    /\ (pc_u = "lock") ~> guard_u
    /\ (pc_r = "lock") ~> guard_r

C11_Witness == pc_r = "lock" /\ guard_u /\ pc_u = "drop" /\ locked

\* the voices and the shape that the handled events ask for
Held == {NoteOf(k) : k \in {h \in PlayableKeys : presses[h] >= 1}}
ShapeNamed(t) ==
    CASE t = "SawSelected" -> "Saw"
      [] t = "TriangleSelected" -> "Triangle"
      [] t = "SquareSelected" -> "Square"
      [] OTHER -> "Sine"

\* the value of sample_clock when slot i of the buffer was mixed
NumWritten == Cardinality({i \in Slots : Written(i)})
ClockOf(i) == (total - NumWritten + i - 1) % sample_rate

HoldsSnapshot == pc_r \in {"mix", "advance", "wrap", "drop"}

\* C12: a callback that has got the lock mixes with the voices and the shape
\* of all events App::update has completed before
C12_CompletedEventsVisible ==
    HoldsSnapshot =>
        /\ notes = Held
        /\ \A i \in Slots : Written(i) =>
              data[i] = MixSample(Held, ShapeNamed(selected), ClockOf(i), sample_rate)

C12_Witness ==
    /\ pc_r = "drop" /\ Len(data) >= 2 /\ \A i \in Slots : Written(i)
    /\ Cardinality(Held) = 2 /\ selected = "TriangleSelected"
    /\ \E i \in Slots : data[i] # 0

\* C13: a sample mixed from a nonempty voice list is 0.2 times the mean of the
\* generator's values for the voices, all with the one shape, at the slot's clock
MeanOf(ns, shape, clock) ==
    LET a == CHOOSE x \in ns : TRUE
        b == CHOOSE x \in ns \ {a} : TRUE
        g(n) == generate_sample(shape, clock, NoteFreq[n], sample_rate)
    IN IF Cardinality(ns) = 1 THEN g(a) ELSE Quot(g(a) + g(b), 2)

C13_EqualWeightMix ==
    HoldsSnapshot =>
        /\ Cardinality(notes) <= 2
        /\ \A i \in Slots : (Written(i) /\ notes # {}) =>
              data[i] = Quot(MeanOf(notes, wave_shape, ClockOf(i)) * VolumeTenths, 10)

C13_Witness ==
    /\ pc_r = "drop" /\ notes = {"C4", "D4"} /\ wave_shape = "Saw"
    /\ \E i \in Slots :
          /\ Written(i) /\ data[i] # 0
          /\ generate_sample("Saw", ClockOf(i), NoteFreq["C4"], sample_rate)
                # generate_sample("Saw", ClockOf(i), NoteFreq["D4"], sample_rate)

\* C18: all samples of one invocation are mixed from the voices and the shape
\* State held when the invocation got the lock, and State does not change
\* while the buffer is filled
C18_OneSnapshotPerBuffer ==
    HoldsSnapshot =>
        /\ seen = StateOf(active_notes, wave_shape)
        /\ notes = seen.active_notes
        /\ \A i \in Slots : Written(i) =>
              data[i] = MixSample(seen.active_notes, seen.wave_shape, ClockOf(i), sample_rate)

C18_Witness ==
    /\ pc_r = "drop" /\ Len(data) >= 2 /\ \A i \in Slots : Written(i)
    /\ seen.active_notes # {} /\ data[1] # data[2]
    /\ pc_u = "lock" /\ message.type \in ShapeMessages /\ message.type # selected

NothingHeld == \A k \in PlayableKeys : presses[k] = 0

\* C14: before any key or selection event is handled the voice set is empty and
\* the shape is Sine, the clock starts at 0, and a buffer mixed while no key is
\* held is all zeros
C14_InitialState ==
    /\ (NothingHeld /\ selected = "") => (active_notes = {} /\ wave_shape = "Sine")
    /\ total = 0 => sample_clock = 0
    /\ (HoldsSnapshot /\ NothingHeld) => \A i \in Slots : Written(i) => data[i] = 0

C14_Witness ==
    /\ pc_r = "drop" /\ Len(data) >= 2 /\ \A i \in Slots : Written(i)
    /\ NothingHeld /\ selected = ""
    /\ pc_u = "lock" /\ message.type = "KeyPressed" /\ message.key \in PlayableKeys

\* C15: no step of the callback changes active_notes or wave_shape, and no step
\* of App::update changes sample_clock or the output buffer
C15_Ownership ==
    [][/\ pc_r' # pc_r => (active_notes' = active_notes /\ wave_shape' = wave_shape)
       /\ pc_u' # pc_u => (sample_clock' = sample_clock /\ data' = data)]_vars

C15_Witness ==
    /\ pc_r = "done" /\ Len(data) >= 2 /\ sample_clock # 0
    /\ active_notes # {} /\ wave_shape # "Sine" /\ pc_u = "idle"

\* C16: generate_sample returns a value in [-1, 1] for every shape, frequency,
\* sample rate and clock position; Sine is 0 at clock 0; Square is +1 for a
\* phase below 0.5 and -1 from 0.5 on
C16_GeneratorRange ==
    gen.done =>
        /\ 0 - Unit <= gen.out /\ gen.out <= Unit
        /\ (gen.shape = "Sine" /\ gen.clock = 0) => gen.out = 0
        /\ gen.shape = "Square" =>
              gen.out = IF 2 * ((gen.clock * gen.freq) % (100 * gen.rate)) < 100 * gen.rate
                        THEN Unit ELSE 0 - Unit

C16_Witness ==
    /\ gen.done /\ gen.shape = "Square" /\ gen.out = 0 - Unit
    /\ gen.clock > gen.rate /\ gen.freq \notin {NoteFreq[n] : n \in Note}

KeyMessage(t) ==
    pc_u = "drop" /\ message.type = t /\ message.key \in PlayableKeys

\* C17: after KeyPressed(k) the note of k is active, after KeyReleased(k) it
\* is not, and the active voice set is always the set of the notes whose last
\* key event was a press
C17_VoiceLifecycle ==
    /\ active_notes = Held
    /\ KeyMessage("KeyPressed") => NoteOf(message.key) \in active_notes
    /\ KeyMessage("KeyReleased") => NoteOf(message.key) \notin active_notes

C17_Witness ==
    /\ KeyMessage("KeyReleased") /\ NoteOf(message.key) \in before.active_notes
    /\ Cardinality(active_notes) = 1

\* C19: a selection message sets wave_shape to its variant and leaves the
\* voices alone, a key message leaves wave_shape alone, and wave_shape is
\* always the variant of the last selection handled, Sine if there was none
C19_ShapeSelection ==
    /\ wave_shape = ShapeNamed(selected)
    /\ (pc_u = "drop" /\ message.type \in ShapeMessages) =>
          (wave_shape = ShapeNamed(message.type) /\ active_notes = before.active_notes)
    /\ (pc_u = "drop" /\ message.type \in {"KeyPressed", "KeyReleased"}) =>
          wave_shape = before.wave_shape

C19_Witness ==
    /\ pc_u = "drop" /\ message.type = "SawSelected" /\ wave_shape = "Saw"
    /\ before.wave_shape = "Triangle" /\ active_notes # {}

====
